---- MODULE Spec2Model ----
(***************************************************************************)
(* The simulation session controller of robosim-studio-app: the Flask      *)
(* backend (app.py, simulation_runner.py, config_manager.py as listed in   *)
(* backend/README.md) seen as a state machine.                             *)
(*                                                                         *)
(* The backend runs with threaded=True: every HTTP request is served by    *)
(* its own thread, and the body of a streaming response (the generator     *)
(* generate_frames) runs later, in the thread that writes the response.    *)
(* The module-level name simulation_runner, and the paused / stopped       *)
(* attributes of a SimulationRunner object, are read and written by these  *)
(* threads without any lock.  Each read or write of one of them is one     *)
(* step of the model, so every interleaving the threads allow is a         *)
(* behaviour.                                                              *)
(*                                                                         *)
(* The page (src/pages/Index.tsx with SimulationCanvas, RobotControls and  *)
(* MapSelector) is the second half of the model: its state hooks are       *)
(* variables, each handler is an action up to its await and another one    *)
(* after it, and a request the page sends is served by the server's own    *)
(* handler in the same step.  Spec, FairSpec, SpecDemo and SpecConfig are  *)
(* the server with any client; SpecPlacement and SpecPage are the server   *)
(* driven by the page.                                                     *)
(***************************************************************************)
EXTENDS Integers, Sequences, FiniteSets, TLC

(* ------------------------------ bounds -------------------------------- *)
\* events of the environment in one behaviour: the operator's requests
\* (start, pause / resume, stop), consumer disconnects, rendering failures
MaxOps == 3
\* start requests among them
MaxStarts == 2
\* start requests in the specification with fairness
FairStarts == 1
\* the step cap of run() takes every value 1..MaxCeiling (the code's own 100 in SpecDemo)
MaxCeiling == 2

(* ------------------------- program constants -------------------------- *)
\* run(): max_steps = 1000
max_steps == 1000
\* run(): "Demo: Complete after 100 steps"
DemoSteps == 100

\* one stream per start request, one thread per pause / stop request
Streams == 1..MaxStarts
Reqs == 1..MaxOps
\* Python's None for the global simulation_runner
None == 0

(* -------------------------- stream events ----------------------------- *)
\* json.dumps({'frame': image_base64}); the image shows 'Simulation Step: n'
FrameEvent(n) == [kind |-> "frame", step |-> n, msg |-> ""]
\* json.dumps({'status': 'completed'})
CompletedEvent == [kind |-> "completed", step |-> -1, msg |-> ""]
\* json.dumps({'error': str(e)})
ErrorEvent(m) == [kind |-> "error", step |-> -1, msg |-> m]

\* variant of NewRunner: the new object takes over a raised pause flag
NewRunner_paused == [paused |-> TRUE, stopped |-> FALSE]

\* SimulationRunner.__init__: paused = False, stopped = False
NewRunner == [paused |-> FALSE, stopped |-> FALSE]

\* variant of set_paused: the flag is toggled instead of assigned
set_paused_toggle(r, p) == [r EXCEPT !.paused = ~r.paused]

\* SimulationRunner.set_paused
set_paused(r, p) == [r EXCEPT !.paused = p]

\* variant of stop: stopping also lowers the pause flag
stop_unpause(r) == [r EXCEPT !.stopped = TRUE, !.paused = FALSE]

\* SimulationRunner.stop
stop(r) == [r EXCEPT !.stopped = TRUE]

(* ------------------------- start request bodies ----------------------- *)
\* robot counts and survivor counts a request body may carry
MaxRobots == 2
MaxSurvivors == 1

\* request.json of start_simulation: map_name (None when missing),
\* robot_count, robot_position (present or None), survivors (their number)
Bodies ==
  [map_name : {None, 1}, robot_count : 0..MaxRobots,
   robot_position : BOOLEAN, survivors : 0..MaxSurvivors]

ValidBodies ==
  {b \in Bodies : b.map_name # None /\ b.robot_count >= 1 /\ b.robot_position}

\* the body of the reference scenario: one robot, no goals
DemoBody ==
  [map_name |-> 1, robot_count |-> 1, robot_position |-> TRUE, survivors |-> 0]

\* ConfigManager.ensure_config_exists: the default file
DefaultConfig == [map |-> None, robots |-> 0, goals |-> 0]

\* ConfigManager.update_config raises TypeError at robot_position['x'] when
\* robot_position is None and the loop over range(robot_count) runs
update_config_raises(b) == b.robot_count >= 1 /\ ~b.robot_position

\* ConfigManager.update_config: the config it saves and returns
update_config(b) ==
  [map |-> b.map_name, robots |-> b.robot_count,
   goals |-> IF b.robot_count >= 1 THEN b.survivors ELSE 0]

\* history value: no pause seen
NoPause == [st |-> "run", k |-> 0]

\* SimulationCanvas.tsx: survivors.length < 15 in handleCanvasClick
MaxPlaced == 15

\* the survivor limit of the scaled page
MaxSlots == 2

VARIABLES
  simulation_runner,  \* app.py global: None or the id of a runner object
  runner,             \* the SimulationRunner objects, by id
  pc,                 \* per stream: where its generate_frames / run() is
  rid,                \* per stream: the runner whose run() it iterates
  step,               \* per stream: run()'s local step
  events,             \* per stream: the events written to the response
  req,                \* per request thread: the pause / stop handler's position
  resp,               \* per request thread: the last response it returned
  config,             \* the stored simulation_config.yaml
  start_resp,         \* the last response of start_simulation
  demo_steps,         \* the cap of run()'s "if step >= 100"
  inputs,             \* the request bodies the operator may post to start
  budget,             \* events the environment may still cause
  stopAt,             \* history: per stream, frames written when stop() was applied
  pm,                 \* history: per stream, the pause / resume it has seen
  status,             \* Index.tsx: the page's status
  selectedMap,        \* Index.tsx: the chosen map name, None for ""
  mapUrl,             \* Index.tsx: the loaded map's object URL, None for null
  robotCount,         \* Index.tsx: the chosen number of robots
  robotPosition,      \* Index.tsx: whether a robot start position is set
  survivors,          \* Index.tsx: the number of placed survivors
  simulationFrame,    \* Index.tsx: the step of the frame shown, NoFrame for null
  isPaused,           \* Index.tsx: the page's pause flag
  mode,               \* SimulationCanvas.tsx: the placement mode
  mapLoads,           \* pending handleMapSelect calls awaiting get-map
  reader,             \* per stream: handleStartSimulation's read loop on it
  startFailed,        \* pending handleStartSimulation calls whose fetch failed
  call,               \* per request thread: the page's handler awaiting it
  max_placed          \* the limit of handleCanvasClick's "survivors.length < 15"

\* the page's state: Index.tsx and its components
uiVars == <<status, selectedMap, mapUrl, robotCount, robotPosition, survivors,
            simulationFrame, isPaused, mode, mapLoads, reader, startFailed,
            call, max_placed>>

\* the server's state: app.py and its objects, with the history variables
appVars == <<simulation_runner, runner, pc, rid, step, events, req, resp,
             config, start_resp, demo_steps, inputs, budget, stopAt, pm>>

vars == <<appVars, uiVars>>

IdleReq == [pc |-> "idle", paused |-> FALSE]

\* useState<string | null>(null) of simulationFrame
NoFrame == -1

\* a stream nobody reads; a request thread no handler of the page awaits
NoReader == [active |-> FALSE, seen |-> 0]
NoCall == [kind |-> "none", isPaused |-> FALSE]

\* Index.tsx useState initial values; SimulationCanvas.tsx useState('robot')
InitPage ==
  /\ status = "idle"
  /\ selectedMap = None
  /\ mapUrl = None
  /\ robotCount = 1
  /\ robotPosition = FALSE
  /\ survivors = 0
  /\ simulationFrame = NoFrame
  /\ isPaused = FALSE
  /\ mode = "robot"
  /\ mapLoads = 0
  /\ reader = [w \in Streams |-> NoReader]
  /\ startFailed = 0
  /\ call = [q \in Reqs |-> NoCall]

InitState ==
  /\ simulation_runner = None
  /\ runner = [w \in Streams |-> NewRunner]
  /\ pc = [w \in Streams |-> "unused"]
  /\ rid = [w \in Streams |-> None]
  /\ step = [w \in Streams |-> 0]
  /\ events = [w \in Streams |-> <<>>]
  /\ req = [q \in Reqs |-> IdleReq]
  /\ resp = [q \in Reqs |-> "none"]
  /\ config = DefaultConfig
  /\ start_resp = "none"
  /\ stopAt = [w \in Streams |-> -1]
  /\ pm = [w \in Streams |-> NoPause]
  /\ InitPage

\* The scaled specification: the demo cap takes every value 1..MaxCeiling.
Init ==
  /\ InitState
  /\ demo_steps \in 1..MaxCeiling
  /\ inputs = {DemoBody}
  /\ budget = [starts |-> MaxStarts, ops |-> MaxOps, loads |-> 0]
  /\ max_placed = MaxPlaced

(* ----------------------------- helpers -------------------------------- *)
Last(s) == s[Len(s)]

IsFrame(e) == e.kind = "frame"

\* the frame events written to stream w so far
Frames(w) == SelectSeq(events[w], IsFrame)

NFrames(w) == Len(Frames(w))

Started == {w \in Streams : pc[w] # "unused"}

\* the stream whose generator has ended or was closed
Ended(w) == pc[w] \in {"done", "closed"}

\* the generator has called simulation_runner.run() and is inside its loop
InLoop(w) == pc[w] \in {"loop", "chk_paused", "yield", "sleep"}

\* a worker that can still write frames
Live(w) == pc[w] = "gen_start" \/ InLoop(w)

\* the streams a call on runner r acts on: those iterating r.run(), and the
\* stream opened together with r whose generator has not begun yet
Targets(r) ==
  {w \in Streams : (InLoop(w) /\ rid[w] = r) \/ (pc[w] = "gen_start" /\ w = r)}

\* variant of NextStep: the increment is lost and the step is rendered again
NextStep_retry(s) == s

\* run(): step += 1
NextStep(s) == s + 1

\* run(): while step < max_steps and not self.stopped
WhileCond(s, r) == s < max_steps /\ ~r.stopped

\* variant of DemoDone: the cap compared with > instead of >=
DemoDone_gt(s) == s > demo_steps

\* run(): if step >= 100
DemoDone(s) == s >= demo_steps

\* variant of yield_completed: the loop breaks at the cap and yields nothing
yield_completed_silent(ev) == ev

\* run(): yield {'status': 'completed'}, sent by generate_frames as
\* data: {"status": "completed"}
yield_completed(ev) == Append(ev, CompletedEvent)

\* variant of on_exception: the exception is logged and nothing is sent
on_exception_swallow(ev, m) == ev

\* generate_frames: except Exception as e: yield the error event with str(e)
on_exception(ev, m) == Append(ev, ErrorEvent(m))

\* pause_simulation: 'paused' if paused else 'resumed'
PauseStatus(p) == IF p THEN "paused" ELSE "resumed"

\* variant of HasRunner: the handlers do not test the global
HasRunner_always(g) == TRUE

\* "if simulation_runner:" of pause_simulation and stop_simulation
HasRunner(g) == g # None

\* a request is served by a thread of the server's pool: the lowest one that
\* is idle and whose last response is not still on its way to the page
Taken(q) == req[q].pc # "idle" \/ call[q] # NoCall

FreeThread(q) ==
  /\ ~Taken(q)
  /\ \A q2 \in Reqs : q2 < q => Taken(q2)

(* ------------------------- history bookkeeping ------------------------ *)
PmOnPause(w, p) ==
  IF p
    THEN IF pm[w].st = "run" THEN [st |-> "paused", k |-> NFrames(w)]
         ELSE [pm[w] EXCEPT !.st = "paused"]
    ELSE IF pm[w].st = "paused" THEN [pm[w] EXCEPT !.st = "resumed"] ELSE pm[w]

PmOnBind(r) == IF r.paused THEN [st |-> "paused", k |-> 0] ELSE NoPause

(* --------------------------- start_simulation ------------------------- *)
\* POST /api/start-simulation with body b.  The handler has no guard on an
\* existing runner: it saves the config, builds a SimulationRunner, assigns
\* the global and returns the streaming Response whose generator has not
\* begun.  A TypeError (update_config, or os.path.join(MAPS_DIR, None))
\* ends the request with a 500.
start_simulation(b) ==
  /\ budget.starts > 0
  /\ budget.ops > 0
  /\ b \in inputs
  /\ budget' = [budget EXCEPT !.starts = @ - 1, !.ops = @ - 1]
  /\ LET w == Cardinality(Started) + 1 IN
       IF update_config_raises(b)
         THEN /\ start_resp' = "internal_error"
              /\ UNCHANGED <<config, simulation_runner, runner, pc>>
         ELSE /\ config' = update_config(b)
              /\ IF b.map_name = None
                   THEN /\ start_resp' = "internal_error"
                        /\ UNCHANGED <<simulation_runner, runner, pc>>
                   ELSE /\ runner' = [runner EXCEPT ![w] = NewRunner]
                        /\ simulation_runner' = w
                        /\ pc' = [pc EXCEPT ![w] = "gen_start"]
                        /\ start_resp' = "stream"
  /\ UNCHANGED <<rid, step, events, req, resp, demo_steps, inputs, stopAt, pm>>

(* --------------------------- generate_frames -------------------------- *)
\* The generator's first next(): "for frame_data in simulation_runner.run()"
\* reads the global now, not when the request was served.  On None the
\* AttributeError is caught by "except Exception" and sent as an error event.
generate_frames_begin(w) ==
  /\ pc[w] = "gen_start"
  /\ IF HasRunner(simulation_runner)
       THEN /\ rid' = [rid EXCEPT ![w] = simulation_runner]
            /\ step' = [step EXCEPT ![w] = 0]
            /\ pc' = [pc EXCEPT ![w] = "loop"]
            /\ pm' = [pm EXCEPT ![w] = PmOnBind(runner[simulation_runner])]
            /\ stopAt' = [stopAt EXCEPT ![w] =
                            IF runner[simulation_runner].stopped THEN 0 ELSE -1]
            /\ UNCHANGED events
       ELSE /\ events' = [events EXCEPT ![w] =
                            on_exception(@, "NoneType has no attribute run")]
            /\ pc' = [pc EXCEPT ![w] = "done"]
            /\ UNCHANGED <<rid, step, pm, stopAt>>
  /\ UNCHANGED <<simulation_runner, runner, req, resp, config, start_resp,
                 demo_steps, inputs, budget>>

\* run(): the while condition.  When it fails run() returns, the for loop of
\* generate_frames ends and the response closes with nothing more written.
run_while(w) ==
  /\ pc[w] = "loop"
  /\ pc' = [pc EXCEPT ![w] =
              IF WhileCond(step[w], runner[rid[w]]) THEN "chk_paused" ELSE "done"]
  /\ UNCHANGED <<simulation_runner, runner, rid, step, events, req, resp, config,
                 start_resp, demo_steps, inputs, budget, stopAt, pm>>

\* run(): if self.paused: time.sleep(0.1); continue
run_paused(w) ==
  /\ pc[w] = "chk_paused"
  /\ pc' = [pc EXCEPT ![w] = IF runner[rid[w]].paused THEN "loop" ELSE "yield"]
  /\ UNCHANGED <<simulation_runner, runner, rid, step, events, req, resp, config,
                 start_resp, demo_steps, inputs, budget, stopAt, pm>>

\* run() renders and yields the frame of this step; generate_frames encodes
\* it and yields the frame event, then sleeps 0.05 s.
run_yield(w) ==
  /\ pc[w] = "yield"
  /\ events' = [events EXCEPT ![w] = Append(@, FrameEvent(step[w]))]
  /\ pc' = [pc EXCEPT ![w] = "sleep"]
  /\ pm' = [pm EXCEPT ![w] = IF @.st = "resumed" THEN NoPause ELSE @]
  /\ UNCHANGED <<simulation_runner, runner, rid, step, req, resp, config,
                 start_resp, demo_steps, inputs, budget, stopAt>>

\* run() resumed after its yield: step += 1, then the demo cap, which yields
\* the completed status; generate_frames sends it and breaks.
run_resume(w) ==
  /\ pc[w] = "sleep"
  /\ LET s == NextStep(step[w]) IN
       /\ step' = [step EXCEPT ![w] = s]
       /\ IF DemoDone(s)
            THEN /\ events' = [events EXCEPT ![w] = yield_completed(@)]
                 /\ pc' = [pc EXCEPT ![w] = "done"]
            ELSE /\ pc' = [pc EXCEPT ![w] = "loop"]
                 /\ UNCHANGED events
  /\ UNCHANGED <<simulation_runner, runner, rid, req, resp, config, start_resp,
                 demo_steps, inputs, budget, stopAt, pm>>

\* An exception while the frame is rendered or encoded (plt.subplots,
\* savefig, b64encode): "except Exception" sends one error event and the
\* generator ends.
generate_frames_except(w) ==
  /\ budget.ops > 0
  /\ budget' = [budget EXCEPT !.ops = @ - 1]
  /\ pc[w] = "yield"
  /\ events' = [events EXCEPT ![w] = on_exception(@, "render failed")]
  /\ pc' = [pc EXCEPT ![w] = "done"]
  /\ UNCHANGED <<simulation_runner, runner, rid, step, req, resp, config,
                 start_resp, demo_steps, inputs, stopAt, pm>>

\* The consumer disconnects: the server closes the generator, GeneratorExit
\* is raised at the pending yield and is not an Exception, so nothing is
\* caught, nothing is written, and neither the runner nor the global is
\* touched.
generate_frames_close(w) ==
  /\ budget.ops > 0
  /\ budget' = [budget EXCEPT !.ops = @ - 1]
  /\ pc[w] = "sleep"
  /\ pc' = [pc EXCEPT ![w] = "closed"]
  /\ UNCHANGED <<simulation_runner, runner, rid, step, events, req, resp, config,
                 start_resp, demo_steps, inputs, stopAt, pm>>

(* --------------------------- pause_simulation ------------------------- *)
\* POST /api/pause-simulation {paused: p}: "if simulation_runner:"
pause_simulation_check(q, p) ==
  /\ FreeThread(q)
  /\ budget.ops > 0
  /\ budget' = [budget EXCEPT !.ops = @ - 1]
  /\ IF HasRunner(simulation_runner)
       THEN /\ req' = [req EXCEPT ![q] = [pc |-> "pause_set", paused |-> p]]
            /\ UNCHANGED resp
       ELSE /\ resp' = [resp EXCEPT ![q] = "NoActiveSession"]
            /\ UNCHANGED req
  /\ UNCHANGED <<simulation_runner, runner, pc, rid, step, events, config,
                 start_resp, demo_steps, inputs, stopAt, pm>>

\* simulation_runner.set_paused(paused): the global is read again; if a stop
\* has cleared it meanwhile the AttributeError ends the request with a 500.
pause_simulation_set(q) ==
  /\ req[q].pc = "pause_set"
  /\ req' = [req EXCEPT ![q] = IdleReq]
  /\ IF HasRunner(simulation_runner)
       THEN /\ runner' = [runner EXCEPT ![simulation_runner] =
                            set_paused(@, req[q].paused)]
            /\ resp' = [resp EXCEPT ![q] = PauseStatus(req[q].paused)]
            /\ pm' = [w \in Streams |->
                        IF w \in Targets(simulation_runner)
                          THEN PmOnPause(w, req[q].paused) ELSE pm[w]]
       ELSE /\ resp' = [resp EXCEPT ![q] = "internal_error"]
            /\ UNCHANGED <<runner, pm>>
  /\ UNCHANGED <<simulation_runner, pc, rid, step, events, config, start_resp,
                 demo_steps, inputs, budget, stopAt>>

(* --------------------------- stop_simulation -------------------------- *)
\* POST /api/stop-simulation: "if simulation_runner:"
stop_simulation_check(q) ==
  /\ FreeThread(q)
  /\ budget.ops > 0
  /\ budget' = [budget EXCEPT !.ops = @ - 1]
  /\ IF HasRunner(simulation_runner)
       THEN /\ req' = [req EXCEPT ![q] = [pc |-> "stop_call", paused |-> FALSE]]
            /\ UNCHANGED resp
       ELSE /\ resp' = [resp EXCEPT ![q] = "NoActiveSession"]
            /\ UNCHANGED req
  /\ UNCHANGED <<simulation_runner, runner, pc, rid, step, events, config,
                 start_resp, demo_steps, inputs, stopAt, pm>>

\* simulation_runner.stop(): the global is read again
stop_simulation_call(q) ==
  /\ req[q].pc = "stop_call"
  /\ IF HasRunner(simulation_runner)
       THEN /\ runner' = [runner EXCEPT ![simulation_runner] = stop(@)]
            /\ req' = [req EXCEPT ![q].pc = "stop_clear"]
            /\ stopAt' = [w \in Streams |->
                            IF w \in Targets(simulation_runner) /\ stopAt[w] = -1
                              THEN NFrames(w) ELSE stopAt[w]]
            /\ UNCHANGED resp
       ELSE /\ resp' = [resp EXCEPT ![q] = "internal_error"]
            /\ req' = [req EXCEPT ![q] = IdleReq]
            /\ UNCHANGED <<runner, stopAt>>
  /\ UNCHANGED <<simulation_runner, pc, rid, step, events, config, start_resp,
                 demo_steps, inputs, budget, pm>>

\* simulation_runner = None; return {'status': 'stopped'}
stop_simulation_clear(q) ==
  /\ req[q].pc = "stop_clear"
  /\ simulation_runner' = None
  /\ req' = [req EXCEPT ![q] = IdleReq]
  /\ resp' = [resp EXCEPT ![q] = "stopped"]
  /\ UNCHANGED <<runner, pc, rid, step, events, config, start_resp, demo_steps,
                 inputs, budget, stopAt, pm>>

(* ------------------------------ the page ------------------------------ *)
\* AVAILABLE_MAPS of MapSelector.tsx, one name standing for the ten
MapNames == {1}

\* the options of the robot count Select, up to MaxRobots of the ten
RobotChoices == 1..MaxRobots

\* isSimulating and disabled as Index.tsx passes them to its components
isSimulating == status \in {"simulating", "paused"}
disabled == status \in {"idle", "loading"}

\* variant of CanAdd: the limit itself is still accepted
CanAdd_inclusive(n) == n <= max_placed

\* handleCanvasClick: survivors.length < 15
CanAdd(n) == n < max_placed

\* onSurvivorAdd: setSurvivors([...survivors, pos])
onSurvivorAdd(n) == n + 1

\* variant of MissingPosition: the handler does not look at the position
MissingPosition_unchecked(p) == FALSE

\* handleStartSimulation: if (!robotPosition)
MissingPosition(p) == ~p

\* variant of IsCompleted: every event without a frame ends the simulation
IsCompleted_noframe(e) == e.kind # "frame"

\* the read loop: data.status === 'completed'
IsCompleted(e) == e.kind = "completed"

\* the payload of handleStartSimulation
Payload ==
  [map_name |-> selectedMap, robot_count |-> robotCount,
   robot_position |-> robotPosition, survivors |-> survivors]

\* every payload the page can build once a robot position is set, with the
\* robot counts R offered by the Select
PagePayloads(R) ==
  [map_name : MapNames \cup {None}, robot_count : R,
   robot_position : {TRUE}, survivors : 0..MaxPlaced]

\* MapSelector onValueChange; the Select is disabled while status is
\* 'simulating'.  The part of handleMapSelect before its await.  A selection
\* is an event of the environment, counted by budget.loads.
handleMapSelect(m) ==
  /\ status # "simulating"
  /\ budget.loads > 0
  /\ budget' = [budget EXCEPT !.loads = @ - 1]
  /\ selectedMap' = m
  /\ status' = "loading"
  /\ robotPosition' = FALSE
  /\ survivors' = 0
  /\ simulationFrame' = NoFrame
  /\ mapLoads' = mapLoads + 1
  /\ UNCHANGED <<mapUrl, robotCount, isPaused, mode, reader, startFailed, call,
                 max_placed>>
  /\ UNCHANGED <<simulation_runner, runner, pc, rid, step, events, req, resp,
                 config, start_resp, demo_steps, inputs, stopAt, pm>>

\* handleMapSelect after await fetch(get-map): the map m it asked for came
\* (ok) or the response was not ok / the fetch failed
handleMapSelect_then(m, ok) ==
  /\ mapLoads > 0
  /\ mapLoads' = mapLoads - 1
  /\ IF ok
       THEN mapUrl' = m /\ status' = "ready"
       ELSE status' = "error" /\ UNCHANGED mapUrl
  /\ UNCHANGED <<selectedMap, robotCount, robotPosition, survivors,
                 simulationFrame, isPaused, mode, reader, startFailed, call, max_placed>>
  /\ UNCHANGED appVars

\* SimulationCanvas.handleCanvasClick: returns at once when disabled or
\* simulating; places the robot in mode 'robot', a survivor in mode 'survivor'
handleCanvasClick ==
  /\ ~(disabled \/ isSimulating)
  /\ IF mode = "robot" /\ ~robotPosition
       THEN /\ robotPosition' = TRUE
            /\ mode' = "survivor"
            /\ UNCHANGED survivors
       ELSE IF mode = "survivor" /\ CanAdd(survivors)
         THEN /\ survivors' = onSurvivorAdd(survivors)
              /\ UNCHANGED <<robotPosition, mode>>
         ELSE UNCHANGED <<robotPosition, mode, survivors>>
  /\ UNCHANGED <<status, selectedMap, mapUrl, robotCount, simulationFrame,
                 isPaused, mapLoads, reader, startFailed, call, max_placed>>
  /\ UNCHANGED appVars

\* the two mode buttons of SimulationCanvas, each with its disabled attribute
setMode(m) ==
  /\ ~(disabled \/ isSimulating)
  /\ IF m = "robot" THEN ~robotPosition
                    ELSE robotPosition /\ survivors < max_placed
  /\ mode' = m
  /\ UNCHANGED <<status, selectedMap, mapUrl, robotCount, robotPosition,
                 survivors, simulationFrame, isPaused, mapLoads, reader,
                 startFailed, call, max_placed>>
  /\ UNCHANGED appVars

\* RobotControls: the robot count Select, disabled || isSimulating
setRobotCount(n) ==
  /\ ~(disabled \/ isSimulating)
  /\ n \in {b.robot_count : b \in inputs}
  /\ robotCount' = n
  /\ UNCHANGED <<status, selectedMap, mapUrl, robotPosition, survivors,
                 simulationFrame, isPaused, mode, mapLoads, reader,
                 startFailed, call, max_placed>>
  /\ UNCHANGED appVars

\* handleStartSimulation up to the response of its fetch.  The START button
\* is rendered when not simulating.  With no robot position the handler
\* returns after a toast.  Otherwise it sets the status, clears isPaused and
\* posts the payload: the server (up) serves it with start_simulation, or the
\* fetch fails; a response that is not ok and a failed fetch both throw.
handleStartSimulation(up) ==
  /\ ~isSimulating
  /\ ~disabled
  /\ IF MissingPosition(robotPosition)
       THEN UNCHANGED vars
       ELSE /\ status' = "simulating"
            /\ isPaused' = FALSE
            /\ IF up
                 THEN /\ start_simulation(Payload)
                      /\ IF start_resp' = "stream"
                           THEN /\ reader' = [reader EXCEPT
                                      ![Cardinality(Started) + 1] =
                                         [active |-> TRUE, seen |-> 0]]
                                /\ UNCHANGED startFailed
                           ELSE /\ startFailed' = startFailed + 1
                                /\ UNCHANGED reader
                 ELSE /\ budget.ops > 0
                      /\ budget' = [budget EXCEPT !.ops = @ - 1]
                      /\ startFailed' = startFailed + 1
                      /\ UNCHANGED <<simulation_runner, runner, pc, rid, step,
                                     events, req, resp, config, start_resp,
                                     demo_steps, inputs, stopAt, pm, reader>>
            /\ UNCHANGED <<selectedMap, mapUrl, robotCount, robotPosition,
                           survivors, simulationFrame, mode, mapLoads, call, max_placed>>

\* handleStartSimulation: catch (error) => setStatus('error')
handleStartSimulation_catch ==
  /\ startFailed > 0
  /\ startFailed' = startFailed - 1
  /\ status' = "error"
  /\ UNCHANGED <<selectedMap, mapUrl, robotCount, robotPosition, survivors,
                 simulationFrame, isPaused, mode, mapLoads, reader, call, max_placed>>
  /\ UNCHANGED appVars

\* handleStartSimulation: one event taken from the stream by the read loop,
\* or the end of the stream.  A frame is shown; 'completed' sets the status
\* and returns; any other event is skipped.  When the stream has ended the
\* loop breaks (done), and a stream cut by the network makes read() reject,
\* which the catch turns into status 'error'.
handleStartSimulation_read(w) ==
  /\ reader[w].active
  /\ LET k == reader[w].seen IN
       IF k < Len(events[w])
         THEN LET e == events[w][k + 1] IN
           IF e.kind = "frame"
             THEN /\ simulationFrame' = e.step
                  /\ reader' = [reader EXCEPT ![w].seen = k + 1]
                  /\ UNCHANGED status
             ELSE IF IsCompleted(e)
               THEN /\ status' = "completed"
                    /\ reader' = [reader EXCEPT ![w] = NoReader]
                    /\ UNCHANGED simulationFrame
               ELSE /\ reader' = [reader EXCEPT ![w].seen = k + 1]
                    /\ UNCHANGED <<status, simulationFrame>>
         ELSE /\ Ended(w)
              /\ reader' = [reader EXCEPT ![w] = NoReader]
              /\ IF pc[w] = "closed" THEN status' = "error"
                                     ELSE UNCHANGED status
              /\ UNCHANGED simulationFrame
  /\ UNCHANGED <<selectedMap, mapUrl, robotCount, robotPosition, survivors,
                 isPaused, mode, mapLoads, startFailed, call, max_placed>>
  /\ UNCHANGED appVars

\* handlePauseSimulation up to its await: the PAUSE / RESUME button is
\* rendered while simulating; it posts {paused: !isPaused}, which thread q of
\* the server begins to serve, and keeps the isPaused it was rendered with.
handlePauseSimulation(q) ==
  /\ isSimulating
  /\ call[q] = NoCall
  /\ pause_simulation_check(q, ~isPaused)
  /\ call' = [call EXCEPT ![q] = [kind |-> "pause", isPaused |-> isPaused]]
  /\ UNCHANGED <<status, selectedMap, mapUrl, robotCount, robotPosition,
                 survivors, simulationFrame, isPaused, mode, mapLoads, reader,
                 startFailed,
                 max_placed>>

\* handlePauseSimulation after the await: the response is not looked at
handlePauseSimulation_then(q) ==
  /\ call[q].kind = "pause"
  /\ req[q].pc = "idle"
  /\ isPaused' = ~call[q].isPaused
  /\ status' = IF call[q].isPaused THEN "simulating" ELSE "paused"
  /\ call' = [call EXCEPT ![q] = NoCall]
  /\ UNCHANGED <<selectedMap, mapUrl, robotCount, robotPosition, survivors,
                 simulationFrame, mode, mapLoads, reader, startFailed,
                 max_placed>>
  /\ UNCHANGED appVars

\* handleStopSimulation up to its await: the STOP button is rendered while
\* simulating
handleStopSimulation(q) ==
  /\ isSimulating
  /\ call[q] = NoCall
  /\ stop_simulation_check(q)
  /\ call' = [call EXCEPT ![q] = [kind |-> "stop", isPaused |-> isPaused]]
  /\ UNCHANGED <<status, selectedMap, mapUrl, robotCount, robotPosition,
                 survivors, simulationFrame, isPaused, mode, mapLoads, reader,
                 startFailed,
                 max_placed>>

\* handleStopSimulation after the await: the response is not looked at
handleStopSimulation_then(q) ==
  /\ call[q].kind = "stop"
  /\ req[q].pc = "idle"
  /\ status' = "ready"
  /\ simulationFrame' = NoFrame
  /\ isPaused' = FALSE
  /\ call' = [call EXCEPT ![q] = NoCall]
  /\ UNCHANGED <<selectedMap, mapUrl, robotCount, robotPosition, survivors,
                 mode, mapLoads, reader, startFailed,
                 max_placed>>
  /\ UNCHANGED appVars

(* ---------------------------- specification --------------------------- *)
\* a step of the thread that runs stream w's generator
Worker(w) ==
  \/ generate_frames_begin(w) /\ UNCHANGED uiVars
  \/ run_while(w) /\ UNCHANGED uiVars
  \/ run_paused(w) /\ UNCHANGED uiVars
  \/ run_yield(w) /\ UNCHANGED uiVars
  \/ run_resume(w) /\ UNCHANGED uiVars

\* the server alone, its requests posted by any client
Next ==
  \/ \E b \in Bodies : start_simulation(b) /\ UNCHANGED uiVars
  \/ \E w \in Streams : Worker(w)
  \/ \E w \in Streams : generate_frames_except(w) /\ UNCHANGED uiVars
  \/ \E w \in Streams : generate_frames_close(w) /\ UNCHANGED uiVars
  \/ \E q \in Reqs, p \in BOOLEAN :
        pause_simulation_check(q, p) /\ UNCHANGED uiVars
  \/ \E q \in Reqs : pause_simulation_set(q) /\ UNCHANGED uiVars
  \/ \E q \in Reqs : stop_simulation_check(q) /\ UNCHANGED uiVars
  \/ \E q \in Reqs : stop_simulation_call(q) /\ UNCHANGED uiVars
  \/ \E q \in Reqs : stop_simulation_clear(q) /\ UNCHANGED uiVars

Spec == Init /\ [][Next]_vars

\* Each generator runs in a thread of its own, which the interpreter keeps
\* scheduling: a worker step that stays possible is eventually taken.
InitFair ==
  /\ InitState
  /\ demo_steps \in 1..MaxCeiling
  /\ inputs = {DemoBody}
  /\ budget = [starts |-> FairStarts, ops |-> MaxOps, loads |-> 0]
  /\ max_placed = MaxPlaced

FairSpec ==
  InitFair /\ [][Next]_vars /\ \A w \in Streams : WF_vars(Worker(w))

\* The reference scenario: the code's own cap of 100 steps, the body with one
\* robot and no goals, one start, and one further event of the environment.
InitDemo ==
  /\ InitState
  /\ demo_steps = DemoSteps
  /\ inputs = {DemoBody}
  /\ budget = [starts |-> 1, ops |-> 2, loads |-> 0]
  /\ max_placed = MaxPlaced

SpecDemo == InitDemo /\ [][Next]_vars

\* Start requests with any body, well-formed or not: a cap of one step, two
\* starts and two events of the environment in all.
InitConfig ==
  /\ InitState
  /\ demo_steps = 1
  /\ inputs = Bodies
  /\ budget = [starts |-> 2, ops |-> 2, loads |-> 0]
  /\ max_placed = MaxPlaced

SpecConfig == InitConfig /\ [][Next]_vars

\* The page and the server together: every request comes from the page.
\* The page's own limit of 15 survivors, one robot, a cap of one step, one
\* start, one further event of the server's environment and two map
\* selections.
InitPlacement ==
  /\ InitState
  /\ demo_steps = 1
  /\ inputs = PagePayloads({1})
  /\ budget = [starts |-> 1, ops |-> 2, loads |-> 2]
  /\ max_placed = MaxPlaced

NextPage ==
  \/ \E m \in MapNames : handleMapSelect(m)
  \/ \E m \in MapNames, ok \in BOOLEAN : handleMapSelect_then(m, ok)
  \/ handleCanvasClick
  \/ \E m \in {"robot", "survivor"} : setMode(m)
  \/ \E n \in RobotChoices : setRobotCount(n)
  \/ \E up \in BOOLEAN : handleStartSimulation(up)
  \/ handleStartSimulation_catch
  \/ \E w \in Streams : handleStartSimulation_read(w)
  \/ \E q \in Reqs : handlePauseSimulation(q)
  \/ \E q \in Reqs : handlePauseSimulation_then(q)
  \/ \E q \in Reqs : handleStopSimulation(q)
  \/ \E q \in Reqs : handleStopSimulation_then(q)
  \/ \E w \in Streams : Worker(w)
  \/ \E w \in Streams : generate_frames_except(w) /\ UNCHANGED uiVars
  \/ \E w \in Streams : generate_frames_close(w) /\ UNCHANGED uiVars
  \/ \E q \in Reqs : pause_simulation_set(q) /\ UNCHANGED uiVars
  \/ \E q \in Reqs : stop_simulation_call(q) /\ UNCHANGED uiVars
  \/ \E q \in Reqs : stop_simulation_clear(q) /\ UNCHANGED uiVars

SpecPlacement == InitPlacement /\ [][NextPage]_vars

\* The scaled page: a limit of MaxSlots survivors, every robot count of
\* RobotChoices and a cap of one step.  In SpecPage the weight is on the
\* traffic with the server: one map selection, one start and two further
\* events of the server's environment.
InitScaledPage ==
  /\ InitState
  /\ demo_steps = 1
  /\ inputs = PagePayloads(RobotChoices)
  /\ budget = [starts |-> 1, ops |-> 3, loads |-> 1]
  /\ max_placed = MaxSlots

SpecPage == InitScaledPage /\ [][NextPage]_vars

\* In SpecSetup the weight is on the set-up of the scene: two map
\* selections, one start and one further event of the server's environment.
InitSetup ==
  /\ InitState
  /\ demo_steps = 1
  /\ inputs = PagePayloads(RobotChoices)
  /\ budget = [starts |-> 1, ops |-> 2, loads |-> 2]
  /\ max_placed = MaxSlots

SpecSetup == InitSetup /\ [][NextPage]_vars

(* ======================================================================= *)
(*                               Claims                                    *)
(* ======================================================================= *)

\* the stream was opened by the most recent accepted start
Current == Cardinality(Started)

\* a control request enters its handler in this step, on thread q
CheckStep(q) ==
  \/ \E p \in BOOLEAN : pause_simulation_check(q, p)
  \/ stop_simulation_check(q)

\* the terminal event the specification calls "stopped"; the code has none
StoppedEvent == [kind |-> "stopped", step |-> -1, msg |-> ""]

IsTerminal(e) == e.kind \in {"completed", "stopped", "error"}

\* frames 0 .. k-1, in order
FramesUpTo(k) == [i \in 1..k |-> FrameEvent(i - 1)]

(* C1: in every reachable state at most one session is non-terminal       *)
(* (Running or Paused): there is never a second worker loop still able to *)
(* produce frames while another session is the current one.               *)
C1_AtMostOneLiveSession ==
  Cardinality({w \in Streams : Live(w)}) <= 1

(* C2: a start request issued while a session is Running fails with       *)
(* AlreadyRunning; the existing session's pause flag, stop flag, step     *)
(* index and position are unchanged and it remains the session that later *)
(* pause / stop requests target.                                          *)
C2_StartWhileRunningRejected ==
  [][ ((\E w \in Streams : Live(w)) /\ (\E b \in Bodies : start_simulation(b)))
        => /\ start_resp' = "AlreadyRunning"
           /\ UNCHANGED <<simulation_runner, runner, pc, rid, step>> ]_vars

(* C3: every stream opened by a start request and run to its end ends     *)
(* with exactly one terminal event (completed, stopped or error), which   *)
(* is its last event; no stream ends without a terminal event.            *)
C3_StreamEndsWithOneTerminal ==
  \A w \in Streams :
    /\ \A i \in 1..Len(events[w]) :
         IsTerminal(events[w][i]) => i = Len(events[w])
    /\ pc[w] = "done" =>
         (Len(events[w]) > 0 /\ IsTerminal(Last(events[w])))

(* C4: a start followed by a stop after k frames have been delivered      *)
(* (k >= 0) produces a stream of exactly those k frame events followed by *)
(* exactly one stopped event, and the registry slot is empty immediately  *)
(* after the stop request returns.                                        *)
C4_StopYieldsFramesThenStopped ==
  /\ [](\A w \in Streams :
          (pc[w] = "done" /\ stopAt[w] >= 0) =>
             events[w] = Append(FramesUpTo(stopAt[w]), StoppedEvent))
  /\ [][ \A q \in Reqs :
           (resp[q] # "stopped" /\ resp'[q] = "stopped")
              => simulation_runner' = None ]_vars

(* C5: within one stream the step indices of the delivered frames start   *)
(* at 0 and increase by exactly one from frame to frame, under any        *)
(* interleaving of pause, resume and stop requests: no frame is retried,  *)
(* reordered or skipped.                                                  *)
C5_StepsContiguous ==
  \A w \in Streams :
    \A i \in 1..NFrames(w) : Frames(w)[i].step = i - 1

\* a stream with two frames, the second written after a pause was applied
\* when one frame had been delivered
C5_Witness ==
  \E w \in Streams :
    NFrames(w) >= 2 /\ pm[w].st = "paused" /\ pm[w].k >= 1

(* C6: a pause followed by a resume during a Running session emits no     *)
(* terminal event and closes no stream by itself, and the first frame     *)
(* delivered after the resume has the step index that follows the last    *)
(* frame delivered before the pause: index pm.k, the number of frames     *)
(* delivered when the pause was applied.                                  *)
C6_ResumeContinuesAfterPause ==
  /\ [][ (\E q \in Reqs : pause_simulation_set(q))
           => UNCHANGED <<events, pc>> ]_vars
  /\ [][ \A w \in Streams :
           (run_yield(w) /\ pm[w].st = "resumed") => step[w] = pm[w].k ]_vars

(* C7: a session whose step index reaches the step ceiling always         *)
(* terminates with a completed event as its last event, for every value   *)
(* of the ceiling (the engine reports nothing: the cap alone ends it);    *)
(* and a session that is never stopped and not left paused forever        *)
(* eventually reaches a terminal state.                                   *)
AtCeiling(w) == InLoop(w) /\ (step[w] >= demo_steps \/ step[w] >= max_steps)

StopApplied(w) == InLoop(w) /\ runner[rid[w]].stopped

PausedNow(w) == InLoop(w) /\ runner[rid[w]].paused

C7_CeilingCompletes ==
  /\ [](\A w \in Streams : ~AtCeiling(w))
  /\ [](\A w \in Streams :
          (pc[w] = "done" /\ step[w] >= demo_steps) =>
             (step[w] = demo_steps /\ Last(events[w]) = CompletedEvent))
  /\ \A w \in Streams :
       ([]~StopApplied(w) /\ <>[]~PausedNow(w)) => <>[]~Live(w)

\* a stream that ran to the largest ceiling tried and was completed there
C7_Witness ==
  \E w \in Streams :
    /\ demo_steps = MaxCeiling
    /\ pc[w] = "done"
    /\ step[w] = demo_steps
    /\ events[w] = Append(FramesUpTo(demo_steps), CompletedEvent)

(* C8: with step ceiling 100, one robot, no goals, and no stop, failure   *)
(* or disconnect, the stream consists of exactly 100 frame events with    *)
(* steps 0..99 in order followed by exactly one completed event: 101      *)
(* events in total.                                                       *)
HasError(w) == \E i \in 1..Len(events[w]) : events[w][i].kind = "error"

C8_DemoStream ==
  \A w \in Streams :
    (pc[w] = "done" /\ stopAt[w] = -1 /\ ~HasError(w)) =>
       /\ config = [map |-> 1, robots |-> 1, goals |-> 0]
       /\ Len(events[w]) = 101
       /\ \A i \in 1..100 : events[w][i] = FrameEvent(i - 1)
       /\ events[w][101] = CompletedEvent

C8_Witness ==
  \E w \in Streams :
    /\ pc[w] = "done" /\ stopAt[w] = -1 /\ ~HasError(w)
    /\ \A q \in Reqs : resp[q] = "none" /\ req[q].pc = "idle"
    /\ Len(events[w]) = 101

(* C9: a pause, resume or stop request issued while no session exists     *)
(* (Idle: the registry slot, the global simulation_runner, is empty)      *)
(* fails with NoActiveSession and changes no state.                       *)
Idle == simulation_runner = None

C9_IdleRejected ==
  [][ \A q \in Reqs :
        (Idle /\ CheckStep(q)) =>
           /\ resp'[q] = "NoActiveSession"
           /\ req'[q] = IdleReq
           /\ UNCHANGED <<simulation_runner, runner, pc, rid, step, events,
                          config, start_resp>> ]_vars

\* a request was rejected before any start, the first event of the behaviour
C9_Witness ==
  \E q \in Reqs :
    /\ resp[q] = "NoActiveSession"
    /\ Idle
    /\ Started = {}
    /\ budget.ops = MaxOps - 1

(* C10: a stop or pause request issued after the current session has      *)
(* reached a terminal phase (completed, stopped or failed) is rejected    *)
(* with NoActiveSession; it is not answered with a success status.        *)
CurrentTerminal == Started # {} /\ pc[Current] = "done"

C10_TerminalRejected ==
  [][ \A q \in Reqs :
        (CurrentTerminal /\ CheckStep(q)) =>
           (resp'[q] = "NoActiveSession" /\ req'[q] = IdleReq) ]_vars

(* C11: on every path by which a session leaves Running or Paused (stop   *)
(* request, completion at the ceiling, engine failure, consumer           *)
(* disconnect) the registry slot is cleared: once the session is terminal *)
(* and no request is still being served, the registry does not hold its   *)
(* handle.                                                                *)
Quiet == \A q \in Reqs : req[q].pc = "idle"

C11_TerminalClearsSlot ==
  \A w \in Streams : (Ended(w) /\ Quiet) => simulation_runner # w

(* C12: when the consumer of the event stream disconnects, an implicit    *)
(* stop is applied: after the disconnect no further step is executed and  *)
(* no event (in particular no error event) is produced for that stream,   *)
(* and once the program has nothing left to do the registry slot no       *)
(* longer holds the session.                                              *)
Disconnected(w) == pc[w] = "closed"

Settled == Quiet /\ \A v \in Streams : ~Live(v)

C12_DisconnectStops ==
  /\ [](\A w \in Streams : Disconnected(w) => ~HasError(w))
  /\ [][\A w \in Streams : Disconnected(w) =>
          /\ pc'[w] = pc[w]
          /\ events'[w] = events[w]
          /\ step'[w] = step[w]]_vars
  /\ [](\A w \in Streams : (Disconnected(w) /\ Settled) => simulation_runner # w)

(* C13: if a producer step fails while the session is running, exactly    *)
(* one error event carrying the failure reason is emitted and it is the   *)
(* last event of the stream, no further step is executed, and the worker  *)
(* ends normally (the stream is finished, not broken).                    *)
NErrors(w) == Len(SelectSeq(events[w], LAMBDA e : e.kind = "error"))

C13_FailureEndsWithOneError ==
  /\ [][\A w \in Streams : generate_frames_except(w) =>
          /\ events'[w] = Append(events[w], ErrorEvent("render failed"))
          /\ pc'[w] = "done"
          /\ step'[w] = step[w]]_vars
  /\ [](\A w \in Streams : HasError(w) =>
          /\ pc[w] = "done"
          /\ NErrors(w) = 1
          /\ Last(events[w]).kind = "error"
          /\ Last(events[w]).msg # "")
  /\ [][\A w \in Streams : pc[w] = "done" =>
          (pc'[w] = "done" /\ events'[w] = events[w] /\ step'[w] = step[w])]_vars

C13_Witness ==
  \E w \in Streams :
    /\ pc[w] = "done"
    /\ NFrames(w) >= 1
    /\ Last(events[w]) = ErrorEvent("render failed")

(* C14: pause, resume and stop requests take effect one at a time in a    *)
(* total order: a pause or resume request that reaches the session after  *)
(* a stop has emptied the registry slot observes the post-stop state and  *)
(* is answered NoActiveSession, leaving every session untouched; it never *)
(* ends in an internal error from acting through the cleared reference.   *)
C14_PauseAfterStopRejected ==
  [][ \A q \in Reqs :
        (pause_simulation_set(q) /\ simulation_runner = None) =>
           (resp'[q] = "NoActiveSession" /\ runner' = runner) ]_vars

(* C15: of two stop requests served concurrently for one session, the     *)
(* session is unregistered exactly once: a stop request that gets as far  *)
(* as calling stop() or clearing the slot finds the slot still holding    *)
(* the session, so only one of them answers "stopped" and neither ends in *)
(* an internal error.                                                     *)
C15_StopOnce ==
  [][ \A q \in Reqs :
        /\ stop_simulation_call(q) => resp'[q] # "internal_error"
        /\ stop_simulation_clear(q) => simulation_runner # None ]_vars

(* C16: pause is idempotent and resume is idempotent. Every accepted      *)
(* pause/resume request answers "paused" when it asked for paused = true  *)
(* and "resumed" otherwise, afterwards the session's pause flag equals    *)
(* the requested value, nothing else of the session changes, and a        *)
(* request that asks for the value the flag already has leaves the        *)
(* session exactly as it was.                                             *)
C16_PauseIdempotent ==
  [][ \A q \in Reqs :
        (pause_simulation_set(q) /\ HasRunner(simulation_runner)) =>
           LET g == simulation_runner
               p == req[q].paused
           IN /\ resp'[q] = (IF p THEN "paused" ELSE "resumed")
              /\ runner'[g].paused = p
              /\ runner'[g].stopped = runner[g].stopped
              /\ \A r \in Streams \ {g} : runner'[r] = runner[r]
              /\ (runner[g].paused = p => runner' = runner)
              /\ UNCHANGED <<simulation_runner, pc, step, events>> ]_vars

C16_Witness ==
  /\ HasRunner(simulation_runner)
  /\ runner[simulation_runner].paused
  /\ \E q1, q2 \in Reqs : q1 # q2 /\ resp[q1] = "paused" /\ resp[q2] = "paused"

(* C17: a start request whose configuration is invalid (no map name, no   *)
(* robot position, or a robot count below 1) is rejected before any       *)
(* session is created and has no side effect: the registry slot, the      *)
(* sessions and their streams, and the stored configuration are           *)
(* unchanged.                                                             *)
C17_InvalidConfigRejected ==
  [][ \A b \in Bodies \ ValidBodies :
        start_simulation(b) =>
           /\ start_resp' # "stream"
           /\ UNCHANGED <<simulation_runner, runner, pc, config>> ]_vars

(* C19: while the session is paused (and not stopped) its worker executes *)
(* no step: a step of the worker produces no event, leaves the step index *)
(* unchanged and does not finish the stream.                              *)
C19_PausedNoProgress ==
  [][ \A w \in Streams :
        (PausedNow(w) /\ ~StopApplied(w) /\ Worker(w)) =>
           /\ events'[w] = events[w]
           /\ step'[w] = step[w]
           /\ pc'[w] # "done" ]_vars

(* C20: stop cancels the tick in flight: once stop has been applied to    *)
(* the session of a looping worker, no further frame is produced or       *)
(* delivered on its stream, and the worker eventually leaves its loop,    *)
(* whether the session was running or paused.                             *)
C20_StopCancelsTick ==
  /\ [][ \A w \in Streams :
           StopApplied(w) =>
              Len(SelectSeq(events'[w], IsFrame)) = NFrames(w) ]_vars
  /\ \A w \in Streams : StopApplied(w) ~> ~InLoop(w)

(* C18: in the page, the number of placed survivors never exceeds 15,     *)
(* after any sequence of canvas clicks, mode changes, map selections and  *)
(* simulation starts and stops.                                           *)
C18_SurvivorsAtMost15 == survivors <= 15 /\ max_placed = MaxPlaced

C18_Witness ==
  /\ survivors = 15
  /\ status = "ready"
  /\ mode = "survivor"
  /\ Started # {}

(* C21: a session on which a stop has been applied never emits a          *)
(* completed event afterwards: once stop() has been applied to the runner *)
(* a looping worker iterates, no step of the system appends the completed *)
(* event to its stream, also when the stop arrives while the frame of the *)
(* last step before the cap is being delivered.                           *)
C21_NoCompletedAfterStop ==
  [][ \A w \in Streams :
        StopApplied(w) =>
           ~(/\ Len(events'[w]) > Len(events[w])
             /\ events'[w][Len(events'[w])] = CompletedEvent) ]_vars

(* C22: every accepted start creates a fresh session, whatever the        *)
(* previous session was: the start registers a runner object never used   *)
(* before, with pause flag false and stop flag false, and opens a new     *)
(* empty stream; a worker entering run() begins at step index 0; and the  *)
(* first frame of every stream has step 0.                                *)
C22_FreshSession ==
  /\ [][ \A b \in inputs :
           (start_simulation(b) /\ start_resp' = "stream") =>
              LET w == simulation_runner' IN
                /\ w \in Streams \ Started
                /\ \A v \in Streams : rid[v] # w
                /\ runner'[w].paused = FALSE
                /\ runner'[w].stopped = FALSE
                /\ pc'[w] = "gen_start"
                /\ events'[w] = <<>> ]_vars
  /\ [][ \A w \in Streams :
           (generate_frames_begin(w) /\ pc'[w] = "loop") => step'[w] = 0 ]_vars
  /\ [](\A w \in Streams : NFrames(w) >= 1 => Frames(w)[1].step = 0)

C22_Witness ==
  /\ Cardinality(Started) = 2
  /\ runner[1].paused
  /\ simulation_runner = 2
  /\ rid[2] = 2
  /\ ~runner[2].paused
  /\ NFrames(2) >= 1

(* C23: the step index and the producer's state are changed only by the   *)
(* worker's own step.  A step of a pause, resume or stop handler leaves   *)
(* every stream's step index, position, bound runner and events and the   *)
(* stored configuration unchanged; pause and resume change nothing but    *)
(* the pause flag of the registered runner, stop nothing but its stop     *)
(* flag and then the registry slot; and whenever a step index changes,    *)
(* the step is the worker's entry into run() or its own increment.        *)
WorkerOwned == <<pc, rid, step, events, config>>

C23_ControlLeavesStep ==
  /\ [][ \A q \in Reqs :
           /\ CheckStep(q) => UNCHANGED <<WorkerOwned, simulation_runner, runner>>
           /\ pause_simulation_set(q) =>
                /\ UNCHANGED <<WorkerOwned, simulation_runner>>
                /\ \A r \in Streams :
                     /\ runner'[r].stopped = runner[r].stopped
                     /\ r # simulation_runner => runner'[r] = runner[r]
           /\ stop_simulation_call(q) =>
                /\ UNCHANGED <<WorkerOwned, simulation_runner>>
                /\ \A r \in Streams :
                     /\ runner'[r].paused = runner[r].paused
                     /\ r # simulation_runner => runner'[r] = runner[r]
           /\ stop_simulation_clear(q) => UNCHANGED <<WorkerOwned, runner>> ]_vars
  /\ [][ \A w \in Streams :
           step'[w] # step[w] => (generate_frames_begin(w) \/ run_resume(w)) ]_vars

C23_Witness ==
  \E w \in Streams :
    /\ InLoop(w)
    /\ step[w] >= 1
    /\ runner[rid[w]].paused
    /\ runner[rid[w]].stopped

(* C24: in the page a start is performed only when a robot start position *)
(* is set.  With no robot position handleStartSimulation sends no start   *)
(* request and leaves status, isPaused and the frame (and everything      *)
(* else) unchanged; and every step in which a start request is sent or a  *)
(* session is opened is taken with a robot position set.                  *)
C24_StartNeedsPosition ==
  [][ /\ \A up \in BOOLEAN :
           (handleStartSimulation(up) /\ ~robotPosition) =>
              /\ UNCHANGED <<status, isPaused, simulationFrame>>
              /\ UNCHANGED <<budget, start_resp, simulation_runner, pc,
                             startFailed, reader>>
      /\ (budget'.starts # budget.starts \/ Started' # Started
            \/ startFailed' > startFailed) =>
              (robotPosition /\ robotPosition') ]_vars

C24_Witness ==
  /\ ~robotPosition
  /\ status = "ready"
  /\ mode = "survivor"
  /\ budget.starts > 0
  /\ budget.ops > 0

(* C25: the page's status becomes completed only on receipt of a          *)
(* completed event from a stream it reads, and after that event the page  *)
(* applies no later frame of that stream: the read loop of that stream is *)
(* over, it never starts again, and a frame is shown only by a read loop  *)
(* that is still running.                                                 *)
NextEvent(w) == events[w][reader[w].seen + 1]

Receives(w) ==
  reader[w].active /\ reader[w].seen < Len(events[w])
    /\ handleStartSimulation_read(w)

C25_CompletedOnlyOnEvent ==
  [][ /\ (status' = "completed" /\ status # "completed") =>
            \E w \in Streams : Receives(w) /\ NextEvent(w) = CompletedEvent
      /\ \A w \in Streams :
           /\ (Receives(w) /\ NextEvent(w) = CompletedEvent) =>
                 (status' = "completed" /\ ~reader'[w].active)
           /\ (pc[w] # "unused" /\ ~reader[w].active) => ~reader'[w].active
      /\ (simulationFrame' # simulationFrame /\ simulationFrame' # NoFrame) =>
            \E w \in Streams :
               Receives(w) /\ NextEvent(w) = FrameEvent(simulationFrame') ]_vars

C25_Witness ==
  /\ status = "completed"
  /\ simulationFrame = 0
  /\ \E w \in Streams :
       pc[w] = "done" /\ ~reader[w].active /\ Last(events[w]) = CompletedEvent

(* C26: in the page, whenever at least one survivor is placed a robot     *)
(* start position is set, after any sequence of canvas clicks, mode       *)
(* switches and map selections.                                           *)
C26_SurvivorNeedsRobot == survivors >= 1 => robotPosition

(* C27: while the page's status is simulating or paused, the selected     *)
(* map, the robot start position, the robot count and the survivors do    *)
(* not change, and the status leaves simulating / paused only through     *)
(* the stop handler, the completed event, or an error of the start        *)
(* handler (pause and resume move it between simulating and paused).      *)
C27_SceneFrozenWhileSimulating ==
  [][ isSimulating =>
        /\ UNCHANGED <<selectedMap, robotPosition, robotCount, survivors>>
        /\ status' \notin {"simulating", "paused"} =>
             \/ \E q \in Reqs : handleStopSimulation_then(q)
             \/ \E w \in Streams : handleStartSimulation_read(w)
             \/ handleStartSimulation_catch ]_vars

(* C28: once the event stream of a started simulation has ended, whether  *)
(* after a completed event, after an error event, or by closing, the      *)
(* page's status does not remain simulating or paused: when the read loop *)
(* of every opened stream is over and no handler of the page is waiting   *)
(* for a response, the status is neither simulating nor paused.           *)
PageSettled ==
  /\ mapLoads = 0
  /\ startFailed = 0
  /\ \A q \in Reqs : call[q] = NoCall
  /\ \A w \in Streams : ~reader[w].active

C28_StreamEndLeavesSimulating ==
  (/\ Started # {}
   /\ \A w \in Started : Ended(w)
   /\ PageSettled) => ~isSimulating

(* C29: after every pause / resume request issued by the page has         *)
(* completed, the page's isPaused equals the pause flag of the server's   *)
(* current session; and when the server rejects the request because       *)
(* there is no active simulation, the page's isPaused and status are left *)
(* unchanged (checked for requests sent after the server has accepted a   *)
(* start of the page).                                                    *)
PauseQuiet ==
  \A q \in Reqs : call[q].kind # "pause" /\ req[q].pc # "pause_set"

C29_PauseFlagAgrees ==
  /\ []((PauseQuiet /\ isSimulating /\ HasRunner(simulation_runner)) =>
           isPaused = runner[simulation_runner].paused)
  /\ [][ \A q \in Reqs :
           (/\ handlePauseSimulation_then(q)
            /\ resp[q] = "NoActiveSession"
            /\ Started # {}) =>
              UNCHANGED <<isPaused, status>> ]_vars

====
